---- MODULE Spec2Model ----
(***************************************************************************)
(* Model of app.py: a Streamlit page that proxies a prompt to a text       *)
(* generation model, an uploaded image to a cloud classifier (behind a     *)
(* cached bearer token), and keeps a per-user JSON history file that is    *)
(* read, extended and rewritten whole on every recommendation.             *)
(*                                                                         *)
(* Every browser session runs the script in its own thread; one script run *)
(* is: optional button handler (text or image), then the history tab.      *)
(* Python string literals that are not ASCII are written in English.       *)
(***************************************************************************)
EXTENDS Integers, Sequences, FiniteSets, TLC

(* ---------------------------- bounds ---------------------------------- *)
\* button presses whose handler may reach save_history, over all sessions
MaxSaves == 2
\* validity windows of the token the clock runs through
MaxTicks == 1
\* tokens the file object's buffer holds before it is written out
BufTokens == 3

(* ------------------------- program constants --------------------------- *)
\* @st.cache_data(ttl=21600), in seconds
ttl == 21600
\* the clock stops here
Horizon == MaxTicks * ttl

Sessions == {"s1", "s2"}
Users == {"u1", "u2"}
style_options == {"casual"}
occasion_options == {"daily"}
weather_options == {"hot"}
\* continuations the text-generation model may produce
GenTexts == {" r1"}

\* Python None, and the literals returned by classify_image
None == "<None>"
AUTH_FAILED == "auth failed"
UNRECOGNIZED == "unrecognized clothing type"
API_FAILED == "API call failed: "

\* answers of the token endpoint: 200 with an access_token, or an error
TokenResponses ==
  { [status_code |-> 200, access_token |-> "tok"],
    [status_code |-> 401, access_token |-> None] }

\* answers of the classification endpoint; has_result says whether the JSON
\* body has a 'result' member
ClassifyResponses ==
  { [status_code |-> 200, has_result |-> TRUE,
     result |-> <<[keyword |-> "T-shirt"]>>, text |-> "ok"],
    [status_code |-> 200, has_result |-> TRUE,
     result |-> <<[keyword |-> "T-shirt"], [keyword |-> "jeans"]>>, text |-> "ok"],
    [status_code |-> 200, has_result |-> TRUE, result |-> <<>>, text |-> "ok"],
    [status_code |-> 200, has_result |-> FALSE, result |-> <<>>, text |-> "ok"],
    [status_code |-> 500, has_result |-> FALSE, result |-> <<>>, text |-> "busy"] }

\* the value of classify_image's local 'response' before the POST
NoResponse == [status_code |-> 0, has_result |-> FALSE, result |-> <<>>, text |-> ""]

(* ------------------------------ JSON file ------------------------------ *)
\* A file is a sequence of tokens: "[", "]", ",", one token per entry object,
\* and NUL for the hole left by a write past the end of the file.
LB == [k |-> "["]
RB == [k |-> "]"]
COMMA == [k |-> ","]
NUL == [k |-> "NUL"]
Obj(e) == [k |-> "obj", e |-> e]

RECURSIVE json_items(_)
json_items(data) ==
  IF data = <<>> THEN <<>>
  ELSE IF Len(data) = 1 THEN <<Obj(data[1])>>
  ELSE <<Obj(data[1]), COMMA>> \o json_items(Tail(data))

\* a dump that leaves the list open
json_dump_unclosed(data) == <<LB>> \o json_items(data)

\* json.dump(data, f, indent=2): the text written for a list
json_dump(data) == <<LB>> \o json_items(data) \o <<RB>>

\* json.load(f): [ok, value]; ok = FALSE stands for json.JSONDecodeError
json_load(bytes) ==
  LET n == Len(bytes)
      m == n - 2
      inner(i) == bytes[i + 1]
      wellformed ==
        /\ n >= 2
        /\ bytes[1] = LB
        /\ bytes[n] = RB
        /\ \/ m = 0
           \/ /\ m % 2 = 1
              /\ \A i \in 1..m :
                   IF i % 2 = 1 THEN inner(i).k = "obj" ELSE inner(i) = COMMA
  IN IF wellformed
       THEN [ok |-> TRUE, value |-> [j \in 1..((m + 1) \div 2) |-> inner(2 * j - 1).e]]
       ELSE [ok |-> FALSE, value |-> <<>>]

\* write(2) of chunk at offset pos of a file opened without O_APPEND
write_at(bytes, pos, chunk) ==
  LET end == pos + Len(chunk)
      n == IF Len(bytes) > end THEN Len(bytes) ELSE end
  IN [i \in 1..n |->
        IF i > pos /\ i <= end THEN chunk[i - pos]
        ELSE IF i <= Len(bytes) THEN bytes[i] ELSE NUL]

NoFile == [exists |-> FALSE, bytes |-> <<>>]
\* open(filename, "w"): create or truncate
open_w(file) == [exists |-> TRUE, bytes |-> <<>>]

(* ------------------------------ functions ------------------------------ *)
\* what a function hands back: a value, or an exception on its way up
Returns(v) == [raised |-> FALSE, value |-> v]
Raises == [raised |-> TRUE, value |-> <<>>]

\* load_history without its try/except
load_history_no_except(file) ==
  IF file.exists
    THEN IF json_load(file.bytes).ok THEN Returns(json_load(file.bytes).value)
         ELSE Raises
    ELSE Returns(<<>>)

\* load_history: [] when the file is absent or unparsable
load_history(file) ==
  IF file.exists
    THEN IF json_load(file.bytes).ok THEN Returns(json_load(file.bytes).value)
         ELSE Returns(<<>>)
    ELSE Returns(<<>>)

\* save_history that drops its optional argument
history_entry_no_clothing(user, occasion, weather, style, recommendation, clothing_type, t) ==
  [user_id |-> user, occasion |-> occasion, weather |-> weather, style |-> style,
   recommendation |-> recommendation, clothing_type |-> None,
   timestamp |-> t]

\* save_history, the dict built at the top
history_entry(user, occasion, weather, style, recommendation, clothing_type, t) ==
  [user_id |-> user, occasion |-> occasion, weather |-> weather, style |-> style,
   recommendation |-> recommendation, clothing_type |-> clothing_type,
   timestamp |-> t]

\* save_history, the read of the existing file
save_read(file) ==
  IF file.exists
    THEN IF json_load(file.bytes).ok THEN Returns(json_load(file.bytes).value)
         ELSE Returns(<<>>)
    ELSE Returns(<<>>)

\* save_history that puts the new entry first
save_append_front(data, entry) == <<entry>> \o data

\* save_history, data.append(history_entry)
save_append(data, entry) == Append(data, entry)

\* a cache that expires after the two hours of the comment on the decorator
cache_hit_two_hours(c, t) == c.set /\ t < c.at + 7200

\* st.cache_data(ttl): the cached value is used while it is younger than ttl
cache_hit(c, t) == c.set /\ t < c.at + ttl

\* get_access_token, the body run on a cache miss
fetch_token(resp) ==
  IF resp.status_code = 200 THEN resp.access_token ELSE None

\* a cache that keeps successes only
cache_store_skip_none(value, t) ==
  IF value = None THEN [set |-> FALSE, value |-> None, at |-> 0]
  ELSE [set |-> TRUE, value |-> value, at |-> t]

\* st.cache_data stores whatever the function returned
cache_store(value, t) == [set |-> TRUE, value |-> value, at |-> t]

\* classify_image without the token test
no_token_unchecked(tok) == FALSE

\* classify_image, "if not access_token"
no_token(tok) == tok = None \/ tok = ""

\* classify_image that takes the last result
classify_result_last(resp) ==
  IF resp.status_code = 200
    THEN IF resp.has_result /\ Len(resp.result) > 0
           THEN resp.result[Len(resp.result)].keyword
           ELSE UNRECOGNIZED
    ELSE API_FAILED \o resp.text

\* classify_image, the mapping of the classification response
classify_result(resp) ==
  IF resp.status_code = 200
    THEN IF resp.has_result /\ Len(resp.result) > 0
           THEN resp.result[1].keyword
           ELSE UNRECOGNIZED
    ELSE API_FAILED \o resp.text

\* generate_outfit, the prompt
text_prompt(occasion, weather, style) ==
  "text:" \o weather \o "/" \o occasion \o "/" \o (IF style = None THEN "" ELSE style)

\* recommend_outfit_by_image, the prompt
image_prompt(occasion, weather, clothing_type) ==
  "image:" \o weather \o "/" \o occasion \o "/" \o clothing_type

(* -------------------------------- state -------------------------------- *)
VARIABLES
  now,          \* wall clock, seconds
  user_id,      \* st.session_state.user_id of each session
  pc,           \* position of each session's script run
  run,          \* the locals of each session's script run
  files,        \* history/<user_id>_history.json of each user
  cache,        \* the st.cache_data slot of get_access_token
  tokenLog,     \* the token endpoint: GET requests sent, tokens it issued
  classifyLog,  \* access_token of the POSTs sent to the classification endpoint
  appended      \* per user, the entries of the save_history calls that returned

vars == <<now, user_id, pc, run, files, cache, tokenLog, classifyLog, appended>>

NoRun ==
  [kind |-> "none", occasion |-> None, weather |-> None, access_token |-> None,
   response |-> NoResponse, clothing_type |-> None, prompt |-> None,
   data |-> <<>>, buf |-> <<>>, pos |-> 0, history |-> <<>>]

\* a script run is over: never started, rendered to the end, or died
Ended == {"idle", "done", "exception"}
InSave == {"save_open", "save_write"}

\* presses still on their way through save_history
InFlight == {s \in Sessions : pc[s] \in {"post", "gen"} \cup InSave}

RECURSIVE TotalLen(_, _)
TotalLen(f, S) ==
  IF S = {} THEN 0
  ELSE LET u == CHOOSE x \in S : TRUE IN Len(f[u]) + TotalLen(f, S \ {u})

\* the model stops pressing buttons once MaxSaves presses are saved or under way
MayPress == TotalLen(appended, Users) + Cardinality(InFlight) < MaxSaves

\* sessions are interchangeable, so the first one is given the first user; the
\* second has the same user id (the hash collides) or another one
InitCommon ==
  /\ now = 0
  /\ user_id \in {f \in [Sessions -> Users] : f["s1"] = "u1"}
  /\ pc = [s \in Sessions |-> "idle"]
  /\ run = [s \in Sessions |-> NoRun]
  /\ cache = [set |-> FALSE, value |-> None, at |-> 0]
  /\ tokenLog = [sent |-> 0, issued |-> {}]
  /\ classifyLog = {}
  /\ appended = [u \in Users |-> <<>>]

\* the history directory is new
Init ==
  /\ InitCommon
  /\ files = [u \in Users |-> NoFile]

\* the history directory outlives the process: a file may be there that an
\* earlier process left cut off between open(filename, "w") and the dump
InitFiles == {NoFile, open_w(NoFile)}

InitSeq ==
  /\ InitCommon
  /\ files \in [Users -> InitFiles]

(* ------------------------------- actions ------------------------------- *)
\* datetime.now() and the cache's timer move on by dt seconds
Advance(dt) ==
  /\ now + dt <= Horizon
  /\ now' = now + dt
  /\ UNCHANGED <<user_id, pc, run, files, cache, tokenLog, classifyLog, appended>>

\* a whole validity window passes
Tick == Advance(ttl)

\* half a validity window passes
TickHalf == Advance(ttl \div 2)

\* a script run with no button pressed: only the history tab does work
StartView(s) ==
  /\ pc[s] \in Ended
  /\ pc' = [pc EXCEPT ![s] = "load"]
  /\ run' = [run EXCEPT ![s] = [NoRun EXCEPT !.kind = "view"]]
  /\ UNCHANGED <<now, user_id, files, cache, tokenLog, classifyLog, appended>>

\* st.button("text_recommend") pressed: generate_outfit builds its prompt
StartText(s, occasion, weather, style) ==
  /\ pc[s] \in Ended
  /\ MayPress
  /\ pc' = [pc EXCEPT ![s] = "gen"]
  /\ run' = [run EXCEPT ![s] =
       [NoRun EXCEPT !.kind = "text", !.occasion = occasion, !.weather = weather,
                     !.prompt = text_prompt(occasion, weather, style)]]
  /\ UNCHANGED <<now, user_id, files, cache, tokenLog, classifyLog, appended>>

\* recommend_outfit_by_image, which builds the prompt from classify_image's string
ToGen(r, clothing_type) ==
  [r EXCEPT !.clothing_type = clothing_type,
            !.prompt = image_prompt(r.occasion, r.weather, clothing_type)]

\* the token endpoint answers resp to one more GET
token_request(log, resp) ==
  [sent |-> log.sent + 1,
   issued |-> IF resp.status_code = 200 THEN log.issued \cup {resp.access_token}
              ELSE log.issued]

\* st.button("image_recommend") pressed with an uploaded file: classify_image
\* up to the token test. get_access_token runs under the cache's lock, so
\* lookup, request and store are one step.
StartImage(s, occasion, weather, resp) ==
  /\ pc[s] \in Ended
  /\ MayPress
  /\ LET hit == cache_hit(cache, now)
         tok == IF hit THEN cache.value ELSE fetch_token(resp)
         r == [NoRun EXCEPT !.kind = "image", !.occasion = occasion,
                            !.weather = weather]
     IN /\ cache' = IF hit THEN cache ELSE cache_store(tok, now)
        /\ tokenLog' = IF hit THEN tokenLog ELSE token_request(tokenLog, resp)
        /\ IF no_token(tok)
             THEN /\ run' = [run EXCEPT ![s] = ToGen(r, AUTH_FAILED)]
                  /\ pc' = [pc EXCEPT ![s] = "gen"]
             ELSE /\ run' = [run EXCEPT ![s] = [r EXCEPT !.access_token = tok]]
                  /\ pc' = [pc EXCEPT ![s] = "post"]
  /\ UNCHANGED <<now, user_id, files, classifyLog, appended>>

\* classify_image from the POST on
ClassifyPost(s, resp) ==
  /\ pc[s] = "post"
  /\ classifyLog' = classifyLog \cup {run[s].access_token}
  /\ run' = [run EXCEPT ![s] =
       ToGen([run[s] EXCEPT !.response = resp], classify_result(resp))]
  /\ pc' = [pc EXCEPT ![s] = "gen"]
  /\ UNCHANGED <<now, user_id, files, cache, tokenLog, appended>>

\* the text-generation call returns, st.success, and save_history is called:
\* it builds the entry, reads the file and appends. Nothing shared is touched
\* between the return and the read, so they are one step. The locals of
\* classify_image are gone by then.
GenReturn(s, text) ==
  /\ pc[s] = "gen"
  /\ LET e == history_entry(user_id[s], run[s].occasion, run[s].weather,
                            CHOOSE st \in style_options : TRUE,
                            run[s].prompt \o text, run[s].clothing_type, now)
         old == save_read(files[user_id[s]])
     IN IF old.raised
          THEN /\ pc' = [pc EXCEPT ![s] = "exception"]
               /\ run' = [run EXCEPT ![s] = NoRun]
          ELSE /\ pc' = [pc EXCEPT ![s] = "save_open"]
               /\ run' = [run EXCEPT ![s].data = save_append(old.value, e),
                                     ![s].response = NoResponse,
                                     ![s].access_token = None]
  /\ UNCHANGED <<now, user_id, files, cache, tokenLog, classifyLog, appended>>

\* the text-generation call raises: nothing catches it, the script run ends
\* and its locals are gone
GenRaise(s) ==
  /\ pc[s] = "gen"
  /\ pc' = [pc EXCEPT ![s] = "exception"]
  /\ run' = [run EXCEPT ![s] = NoRun]
  /\ UNCHANGED <<now, user_id, files, cache, tokenLog, classifyLog, appended>>

\* save_history: open(filename, "w"); json.dump fills the file object's buffer
SaveOpen(s) ==
  /\ pc[s] = "save_open"
  /\ files' = [files EXCEPT ![user_id[s]] = open_w(@)]
  /\ run' = [run EXCEPT ![s].buf = json_dump(run[s].data), ![s].pos = 0]
  /\ pc' = [pc EXCEPT ![s] = "save_write"]
  /\ UNCHANGED <<now, user_id, cache, tokenLog, classifyLog, appended>>

\* save_history: the buffer reaches the file a buffer-full at a time; the last
\* write is the close, after which save_history returns True
SaveWrite(s) ==
  /\ pc[s] = "save_write"
  /\ LET u == user_id[s]
         k == IF Len(run[s].buf) > BufTokens THEN BufTokens ELSE Len(run[s].buf)
         chunk == SubSeq(run[s].buf, 1, k)
         rest == SubSeq(run[s].buf, k + 1, Len(run[s].buf))
     IN /\ files' = [files EXCEPT ![u].bytes = write_at(@, run[s].pos, chunk)]
        /\ run' = [run EXCEPT ![s].buf = rest,
                              ![s].pos = IF rest = <<>> THEN 0 ELSE @ + k]
        /\ IF rest = <<>>
             THEN /\ pc' = [pc EXCEPT ![s] = "load"]
                  /\ appended' = [appended EXCEPT ![u] =
                                    Append(@, run[s].data[Len(run[s].data)])]
             ELSE UNCHANGED <<pc, appended>>
  /\ UNCHANGED <<now, user_id, cache, tokenLog, classifyLog>>

\* the history tab: history = load_history(user_id) is rendered and the run
\* ends; the page keeps showing what was rendered
Load(s) ==
  /\ pc[s] = "load"
  /\ LET h == load_history(files[user_id[s]])
     IN IF h.raised
          THEN /\ pc' = [pc EXCEPT ![s] = "exception"]
               /\ run' = [run EXCEPT ![s] = NoRun]
          ELSE /\ pc' = [pc EXCEPT ![s] = "done"]
               /\ run' = [run EXCEPT ![s] = [NoRun EXCEPT !.history = h.value]]
  /\ UNCHANGED <<now, user_id, files, cache, tokenLog, classifyLog, appended>>

Next ==
  \/ Tick
  \/ \E s \in Sessions : StartView(s)
  \/ \E s \in Sessions, o \in occasion_options, w \in weather_options,
        st \in style_options : StartText(s, o, w, st)
  \/ \E s \in Sessions, o \in occasion_options, w \in weather_options,
        resp \in TokenResponses : StartImage(s, o, w, resp)
  \/ \E s \in Sessions, resp \in ClassifyResponses : ClassifyPost(s, resp)
  \/ \E s \in Sessions, text \in GenTexts : GenReturn(s, text)
  \/ \E s \in Sessions : GenRaise(s)
  \/ \E s \in Sessions : SaveOpen(s)
  \/ \E s \in Sessions : SaveWrite(s)
  \/ \E s \in Sessions : Load(s)

\* every session in its own thread, no coordination
Spec == Init /\ [][Next]_vars

\* no other session of the same user is between the read and the close of
\* save_history
Quiet(s) ==
  \A t \in Sessions \ {s} : user_id[t] = user_id[s] => pc[t] \notin InSave

\* the calls of save_history and load_history of one user run one after another
NextSeq ==
  \/ Tick
  \/ \E s \in Sessions : StartView(s)
  \/ \E s \in Sessions, o \in occasion_options, w \in weather_options,
        st \in style_options : StartText(s, o, w, st)
  \/ \E s \in Sessions, o \in occasion_options, w \in weather_options,
        resp \in TokenResponses : StartImage(s, o, w, resp)
  \/ \E s \in Sessions, resp \in ClassifyResponses : ClassifyPost(s, resp)
  \/ \E s \in Sessions, text \in GenTexts : Quiet(s) /\ GenReturn(s, text)
  \/ \E s \in Sessions : GenRaise(s)
  \/ \E s \in Sessions : SaveOpen(s)
  \/ \E s \in Sessions : SaveWrite(s)
  \/ \E s \in Sessions : Quiet(s) /\ Load(s)

SpecSeq == InitSeq /\ [][NextSeq]_vars

\* the token cache on a finer clock: image presses whose text generation fails
NextCache ==
  \/ TickHalf
  \/ \E s \in Sessions, o \in occasion_options, w \in weather_options,
        resp \in TokenResponses : StartImage(s, o, w, resp)
  \/ \E s \in Sessions, resp \in ClassifyResponses : ClassifyPost(s, resp)
  \/ \E s \in Sessions : GenRaise(s)

SpecCache == Init /\ [][NextCache]_vars

(* ------------------------------- claims -------------------------------- *)
IsPrefix(a, b) == Len(a) <= Len(b) /\ SubSeq(b, 1, Len(a)) = a
Last(q) == q[Len(q)]
\* what load_history(user) would return now
Loaded(u) == load_history(files[u]).value
\* no save_history of the user is between its read and its close
Settled(u) == \A s \in Sessions : user_id[s] = u => pc[s] \notin InSave
\* the file is absent or json.load would raise on it
Unreadable(f) == ~f.exists \/ ~json_load(f.bytes).ok
\* session s calls get_access_token in this step (the image button)
Call(s) == pc[s] \in Ended /\ pc'[s] \in {"post", "gen"} /\ run'[s].kind = "image"
\* what that call handed to classify_image
Returned(s) == IF pc'[s] = "post" THEN run'[s].access_token ELSE None
\* the cached token is inside its validity window
Fresh == cache.set /\ now - cache.at < ttl

\* C1: when the save_history calls of a user run one after another,
\* load_history returns exactly the entries appended, in insertion order and
\* unmodified: after every call that returned, the list loaded is the list of
\* the entries saved so far, and what a session has rendered is a prefix of it.
C1_LoadReturnsAppended ==
  /\ \A u \in Users :
       Settled(u) => load_history(files[u]) = Returns(appended[u])
  /\ \A s \in Sessions :
       pc[s] = "done" => IsPrefix(run[s].history, appended[user_id[s]])

\* C1: a session has rendered two different entries in the order they were saved
C1_Witness ==
  \E s \in Sessions :
    /\ pc[s] = "done"
    /\ Len(run[s].history) = 2
    /\ run[s].history = appended[user_id[s]]
    /\ run[s].history[1] # run[s].history[2]

\* C2: the stored history is append-only: in every step, the list of entries
\* in a user's file before the step is a prefix of the list after it.
C2_AppendOnly ==
  [][\A u \in Users : IsPrefix(Loaded(u), Loaded(u)')]_vars

\* C3: save_history takes no lock, and the last full-file write wins: when a
\* call closes the file, and what is in the file then is what the call itself
\* has written so far plus at most stale bytes that its last write covers, the
\* file ends as exactly the list that call built from what it had read,
\* whatever the other calls have saved since.
C3_LastWriteWins ==
  [][\A s \in Sessions :
       LET b == files[user_id[s]].bytes
           d == json_dump(run[s].data)
       IN (/\ pc[s] = "save_write"
           /\ pc'[s] = "load"
           /\ run[s].pos <= Len(b)
           /\ Len(b) <= Len(d)
           /\ SubSeq(b, 1, run[s].pos) = SubSeq(d, 1, run[s].pos))
          => /\ files'[user_id[s]].exists
             /\ json_load(files'[user_id[s]].bytes).ok
             /\ json_load(files'[user_id[s]].bytes).value = run[s].data]_vars

\* C3: two calls for one user have both returned True and the file holds only
\* the entry of the one that wrote last
C3_LostUpdate ==
  \E u \in Users :
    /\ Settled(u)
    /\ Len(appended[u]) = 2
    /\ appended[u][1] # appended[u][2]
    /\ Loaded(u) = <<appended[u][2]>>

\* C4: after a failed token request the flow is aborted: no session goes on
\* to save_history with the authentication-failure string, and no entry with
\* it is ever saved.
C4_AuthFailureAborts ==
  /\ \A s \in Sessions :
       pc[s] \in InSave \cup {"load"} => run[s].clothing_type # AUTH_FAILED
  /\ \A u \in Users : \A i \in 1..Len(appended[u]) :
       appended[u][i].clothing_type # AUTH_FAILED

\* C5: a classification request is only ever sent with a token that a token
\* request answered 200 has issued; a failed token request leaves None, and
\* classify_image then returns without the POST.
C5_PostNeedsToken ==
  /\ classifyLog \subseteq tokenLog.issued
  /\ None \notin tokenLog.issued
  /\ cache.set => cache.value \in tokenLog.issued \cup {None}
  /\ \A s \in Sessions :
       /\ pc[s] = "post" => run[s].access_token \in tokenLog.issued
       /\ run[s].clothing_type = AUTH_FAILED => run[s].response = NoResponse

\* C5: the token request failed and classify_image returned without a POST
C5_Witness ==
  \E s \in Sessions :
    /\ pc[s] = "gen"
    /\ run[s].clothing_type = AUTH_FAILED
    /\ tokenLog.sent = 1
    /\ tokenLog.issued = {}
    /\ classifyLog = {}

\* C6: a history entry is created exactly when a recommendation succeeds:
\* save_history is entered only from a text-generation call that returned,
\* with one entry added to the list read (clothing_type None for the text
\* button, classify_image's string for the image button), and on return the
\* file holds the earlier entries and that one; when the call raises, the run
\* ends and nothing is saved. Only save_history changes a file.
C6_EntryOnSuccess ==
  [][/\ \A s \in Sessions :
          LET u == user_id[s] IN
          /\ (pc'[s] \in InSave /\ pc[s] \notin InSave) =>
               /\ pc[s] = "gen"
               /\ pc'[s] = "save_open"
               /\ run'[s].data = Append(Loaded(u), Last(run'[s].data))
               /\ Last(run'[s].data).user_id = u
               /\ Last(run'[s].data).clothing_type =
                    (IF run[s].kind = "text" THEN None ELSE run[s].clothing_type)
               /\ run[s].kind = "image" => run[s].clothing_type # None
          /\ (pc[s] \in InSave /\ pc'[s] \notin InSave) =>
               /\ pc'[s] = "load"
               /\ Loaded(u)' = Append(appended[u], Last(run[s].data))
               /\ appended'[u] = Append(appended[u], Last(run[s].data))
          /\ (pc[s] = "gen" /\ pc'[s] \notin {"gen", "save_open"}) =>
               /\ pc'[s] = "exception"
               /\ files' = files
               /\ appended' = appended
     /\ files' # files => \E s \in Sessions : pc[s] \in InSave]_vars

\* C6: an image press has saved its entry with the classifier's string
C6_Witness ==
  \E s \in Sessions :
    /\ pc[s] = "load"
    /\ run[s].kind = "image"
    /\ run[s].clothing_type = "T-shirt"
    /\ Loaded(user_id[s]) = appended[user_id[s]]
    /\ Last(appended[user_id[s]]).clothing_type = "T-shirt"

\* C7: on a file that is absent or unparsable load_history returns [] and
\* raises nothing, and save_history starts from []: the list it writes has
\* the one new entry, and after it returns the file holds exactly that list.
C7_MissingOrUnparsable ==
  [][\A s \in Sessions :
       LET u == user_id[s] IN
       /\ (pc[s] = "load" /\ pc'[s] # "load" /\ Unreadable(files[u])) =>
            /\ pc'[s] = "done"
            /\ run'[s].history = <<>>
       /\ (pc[s] = "gen" /\ pc'[s] = "save_open" /\ Unreadable(files[u])) =>
            /\ Len(run'[s].data) = 1
            /\ run'[s].data[1].user_id = u
       /\ (pc[s] = "save_write" /\ pc'[s] = "load" /\ Len(run[s].data) = 1) =>
            /\ files'[u].exists
            /\ files'[u].bytes = <<LB, Obj(run[s].data[1]), RB>>
            /\ Loaded(u)' = run[s].data]_vars

\* C7: load_history has rendered [] from a file that is there and unparsable
C7_Witness ==
  \E s \in Sessions :
    /\ pc[s] = "done"
    /\ run[s].history = <<>>
    /\ files[user_id[s]].exists
    /\ ~json_load(files[user_id[s]].bytes).ok

\* C8: with a valid token a session is at the POST or, once classify_image has
\* returned, at the text generation with the string of one of three cases:
\* 200 with results gives the first keyword, 200 with an empty or missing
\* result list the unrecognized sentinel, anything else the error string with
\* the raw body; that string is the clothing type of the prompt.
C8_ClassifyMapping ==
  \A s \in Sessions :
    (run[s].kind = "image" /\ run[s].access_token # None) =>
      LET r == run[s].response
          c == run[s].clothing_type
      IN \/ pc[s] = "post" /\ r = NoResponse
         \/ /\ pc[s] = "gen"
            /\ r \in ClassifyResponses
            /\ (r.status_code = 200 /\ r.has_result /\ r.result # <<>>)
                 => c = Head(r.result).keyword
            /\ (r.status_code = 200 /\ (~r.has_result \/ r.result = <<>>))
                 => c = UNRECOGNIZED
            /\ r.status_code # 200 => c = API_FAILED \o r.text
            /\ run[s].prompt = image_prompt(run[s].occasion, run[s].weather, c)

\* C8: the response listed two results and the flow went on with the first
C8_Witness ==
  \E s \in Sessions :
    /\ pc[s] = "gen"
    /\ Len(run[s].response.result) = 2
    /\ run[s].clothing_type = "T-shirt"

C10_FailureCached ==
  [][/\ \A s \in Sessions :
          /\ (Call(s) /\ ~Fresh /\ pc'[s] = "gen") =>
               cache' = [set |-> TRUE, value |-> None, at |-> now]
          /\ (Call(s) /\ Fresh /\ cache.value = None) =>
               /\ pc'[s] = "gen"
               /\ run'[s].clothing_type = AUTH_FAILED
               /\ tokenLog' = tokenLog
               /\ classifyLog' = classifyLog
               /\ cache' = cache
     /\ (cache.set /\ cache.value = None /\ tokenLog'.sent # tokenLog.sent) =>
          now - cache.at >= ttl
     /\ (cache.set /\ cache.value = None /\ cache' # cache) =>
          tokenLog'.sent = tokenLog.sent + 1]_vars

\* C10: two presses were refused on one failed token request
C10_Witness ==
  /\ tokenLog.sent = 1
  /\ cache.set /\ cache.value = None
  /\ classifyLog = {}
  /\ \A s \in Sessions : pc[s] = "gen" /\ run[s].clothing_type = AUTH_FAILED
====
